---- MODULE Spec2Model ----
(***************************************************************************)
(* Task Manager (IlanKog99/Task-Manager---A-Simple-To-Do-App).             *)
(*                                                                         *)
(* A model of the task record, the persistence codec (tasks.json), the     *)
(* classification and ordering pass, and the two front ends that drive     *)
(* them: the GUI (main.py, task_gui.py, task_manager.py, task.py,          *)
(* helpers.py) and the console program (ToDo-NO_GUI.py).                   *)
(*                                                                         *)
(* Representation                                                          *)
(*  - a datetime is an integer number of seconds; day d begins at          *)
(*    d * SecondsPerDay.  All days lie inside the window 1969..2068 in     *)
(*    which a two-digit year is unambiguous.                               *)
(*  - a "%d/%m/%y" date string is the decimal text of its day number;      *)
(*    any other text does not parse.                                       *)
(*  - Python's None is NoDate for a datetime field and None for a text     *)
(*    field; JSON null is None.                                            *)
(*  - a Python object's identity is the field id of the task record.       *)
(*  - the text of tasks.json is a sequence of tokens.                      *)
(*  - a window of the GUI holds the identity of the task it was opened     *)
(*    for.  A task that was removed from the collection while a window     *)
(*    still holds it lives on outside the collection; nothing reads its    *)
(*    fields back into the collection or the file, so they are not kept.   *)
(***************************************************************************)
EXTENDS Integers, Sequences, FiniteSets, TLC

VARIABLES
    variant,    \* "gui" (main.py) or "console" (ToDo-NO_GUI.py)
    pc,         \* "start", "menu", "exited", "killed", "crashed"
    tasks,      \* the in-memory collection (TaskManager.tasks / main's tasks)
    file,       \* TASKS_FILE on disk: [exists, text]
    now,        \* the wall clock, read by datetime.now()
    pass,       \* the last classification and ordering pass (see display_tasks)
    windows,    \* the open detail and edit windows of the GUI, oldest first
    export,     \* tasks_export.txt: [exists, lines]
    last        \* the condition the last handler reported: [op, arg, error],
                \* error being what it printed, showed in a message box or
                \* raised; NoCall when it reported nothing

vars == <<variant, pc, tasks, file, now, pass, windows, export, last>>

(***************************************************************************)
(* Bounds of the model and constants of the program.                       *)
(***************************************************************************)
MaxTasks == 1
MaxClockDay == 1
MaxPassLen == 3
MaxTicksInPass == 1
MaxWindows == 2
MaxExportLen == 3
MaxMenuLen == 2

SecondsPerDay == 86400
DueSoonDays == 30
DefaultPriority == 2
NoDate == -1
None == "null"

PRIORITY_LEVELS == {1, 2, 3}

TimesOfDay == {0, SecondsPerDay - 1}
Instants == {d * SecondsPerDay + s : d \in 1..MaxClockDay, s \in TimesOfDay}
FirstInstant == SecondsPerDay
ParseDays == 0..(MaxClockDay + DueSoonDays + 2)

(***************************************************************************)
(* datetime.strptime / strftime with "%d/%m/%y".                           *)
(***************************************************************************)
CanParse(s) == \E d \in ParseDays : ToString(d) = s

strptime(s) == (CHOOSE d \in ParseDays : ToString(d) = s) * SecondsPerDay

strftime(dt) == ToString(dt \div SecondsPerDay)

\* Python truthiness of an optional text: None and "" are falsy.
Truthy(s) == s \notin {None, ""}

\* str.strip() on the texts the model types in.
strip(s) == CASE s = " " -> ""
              [] s = " a " -> "a"
              [] s = " b " -> "b"
              [] s = " x " -> "x"
              [] OTHER -> s

\* int(text): the decimal digits parse, anything else raises ValueError.
IsInt(s) == \E n \in 0..9 : ToString(n) = s

int(s) == CHOOSE n \in 0..9 : ToString(n) = s

(***************************************************************************)
(* task.py: the Task record.                                               *)
(***************************************************************************)
Task(id, description, completed, due_date, priority, additional_info, created_date, deleted, today) ==
    [id |-> id,
     description |-> description,
     completed |-> completed,
     due_date |-> due_date,
     priority |-> priority,
     additional_info |-> additional_info,
     created_date |-> IF created_date # NoDate THEN created_date ELSE today,
     deleted |-> deleted]

to_dict(t) ==
    [description |-> t.description,
     completed |-> t.completed,
     due_date |-> IF t.due_date # NoDate THEN strftime(t.due_date) ELSE None,
     priority |-> t.priority,
     additional_info |-> t.additional_info,
     created_date |-> strftime(t.created_date),
     deleted |-> t.deleted]

\* dict.get(key, default)
Get(data, key, default) == IF key \in DOMAIN data THEN data[key] ELSE default

MandatoryKeys == {"description", "completed", "priority", "additional_info"}

\* from_dict raises ValueError (strptime) or KeyError (data[...]).
from_dict_raises(data) ==
    \/ Truthy(Get(data, "due_date", None)) /\ ~CanParse(Get(data, "due_date", None))
    \/ Truthy(Get(data, "created_date", None)) /\ ~CanParse(Get(data, "created_date", None))
    \/ \E k \in MandatoryKeys : k \notin DOMAIN data

from_dict(data, id, today) ==
    LET due_date_str == Get(data, "due_date", None)
        created_date_str == Get(data, "created_date", None)
        due_date == IF Truthy(due_date_str) THEN strptime(due_date_str) ELSE NoDate
        created_date == IF Truthy(created_date_str) THEN strptime(created_date_str) ELSE NoDate
    IN  Task(id, data["description"], data["completed"], due_date, data["priority"],
             data["additional_info"], created_date, Get(data, "deleted", FALSE), today)

\* mark_completed stamping the task anew.
mark_completed_restamped(t) ==
    IF t.completed THEN t ELSE [t EXCEPT !.completed = TRUE, !.created_date = @ + 1]

\* reschedule clearing the due date when the text does not parse.
reschedule_clearing(t, new_due_date_str) ==
    IF CanParse(new_due_date_str)
    THEN [t EXCEPT !.due_date = strptime(new_due_date_str)]
    ELSE [t EXCEPT !.due_date = NoDate]

\* update_priority without the membership test.
update_priority_unchecked(t, new_priority) == [t EXCEPT !.priority = new_priority]

\* update_description without the emptiness test.
update_description_unchecked(t, new_description) == [t EXCEPT !.description = new_description]

\* The methods of Task, each returning the task as it is after the call.
mark_completed(t) == IF t.completed THEN t ELSE [t EXCEPT !.completed = TRUE]

reschedule(t, new_due_date_str) ==
    IF CanParse(new_due_date_str)
    THEN [t EXCEPT !.due_date = strptime(new_due_date_str)]
    ELSE t

update_priority(t, new_priority) ==
    IF new_priority \in PRIORITY_LEVELS THEN [t EXCEPT !.priority = new_priority] ELSE t

update_description(t, new_description) ==
    IF strip(new_description) # "" THEN [t EXCEPT !.description = new_description] ELSE t

update_additional_info(t, new_info) ==
    [t EXCEPT !.additional_info =
        IF Truthy(new_info) /\ strip(new_info) # "" THEN new_info ELSE None]

\* What each method prints; "" when it prints nothing.  None of them raises
\* on an argument of its declared type: `in` on the dict of priority levels
\* and str.strip cannot, and reschedule catches strptime's ValueError.
mark_completed_prints(t) == IF t.completed THEN "Task is already completed!" ELSE ""

reschedule_prints(t, new_due_date_str) ==
    IF CanParse(new_due_date_str) THEN "" ELSE "Invalid date format! Please use DD/MM/YY."

update_priority_prints(t, new_priority) ==
    IF new_priority \in PRIORITY_LEVELS THEN ""
    ELSE "Invalid priority level! Choose 1 (Low), 2 (Normal), or 3 (High)."

update_description_prints(t, new_description) ==
    IF strip(new_description) # "" THEN "" ELSE "Description cannot be empty!"

(***************************************************************************)
(* json.dump / json.load on the token text of the file.                    *)
(***************************************************************************)
LBracket == [tok |-> "["]
RBracket == [tok |-> "]"]
RecTok(d) == [tok |-> "rec", val |-> d]
Junk == [tok |-> "junk"]          \* text that is not JSON
Scalar == [tok |-> "scalar"]      \* a JSON document that is a number

json_dump(data) == <<LBracket>> \o [i \in 1..Len(data) |-> RecTok(data[i])] \o <<RBracket>>

IsListText(text) ==
    /\ Len(text) >= 2
    /\ text[1] = LBracket
    /\ text[Len(text)] = RBracket
    /\ \A i \in 2..(Len(text) - 1) : text[i].tok = "rec"

IsJson(text) == IsListText(text) \/ text = <<Scalar>>

\* json.load of a text that is a JSON list: the list of its records.
json_load(text) == [i \in 1..(Len(text) - 2) |-> text[i + 1].val]

(***************************************************************************)
(* helpers.py / ToDo-NO_GUI.py: load_tasks and save_tasks.                 *)
(***************************************************************************)
NoFile == [exists |-> FALSE, text |-> <<>>]
FileOf(text) == [exists |-> TRUE, text |-> text]

tasks_data(ts) == [i \in 1..Len(ts) |-> to_dict(ts[i])]

\* load_tasks without JSONDecodeError in its except clause.
load_tasks_uncaught(f, today) ==
    IF ~f.exists THEN [raised |-> FALSE, tasks |-> <<>>]
    ELSE IF ~IsListText(f.text) THEN [raised |-> TRUE, tasks |-> <<>>]
    ELSE LET data == json_load(f.text) IN
         IF \E i \in 1..Len(data) : from_dict_raises(data[i])
         THEN [raised |-> TRUE, tasks |-> <<>>]
         ELSE [raised |-> FALSE,
               tasks |-> [i \in 1..Len(data) |-> from_dict(data[i], i, today)]]

\* The outcome of load_tasks: the list it returns, or raised = TRUE when an
\* exception other than FileNotFoundError and JSONDecodeError escapes it.
load_tasks(f, today) ==
    IF ~f.exists THEN [raised |-> FALSE, tasks |-> <<>>]
    ELSE IF ~IsJson(f.text) THEN [raised |-> FALSE, tasks |-> <<>>]
    ELSE IF ~IsListText(f.text) THEN [raised |-> TRUE, tasks |-> <<>>]
    ELSE LET data == json_load(f.text) IN
         IF \E i \in 1..Len(data) : from_dict_raises(data[i])
         THEN [raised |-> TRUE, tasks |-> <<>>]
         ELSE [raised |-> FALSE,
               tasks |-> [i \in 1..Len(data) |-> from_dict(data[i], i, today)]]

\* open(TASKS_FILE, "w") truncates the file, json.dump then writes the
\* document; a process killed in between leaves a proper prefix on disk.
save_tasks(ts, pcAfter) ==
    LET doc == json_dump(tasks_data(ts)) IN
    \/ /\ file' = FileOf(doc)
       /\ pc' = pcAfter
    \/ \E k \in 0..(Len(doc) - 1) :
         /\ file' = FileOf(SubSeq(doc, 1, k))
         /\ pc' = "killed"

(***************************************************************************)
(* helpers.py / ToDo-NO_GUI.py: get_task_color and sort_tasks.             *)
(* today is the value datetime.now() returns inside the call.              *)
(***************************************************************************)
Red(v) == IF v = "console" THEN "neon_red" ELSE "red"

\* get_task_color with the 30-day threshold exclusive.
get_task_color_exclusive(task, today, v) ==
    IF task.completed THEN "green"
    ELSE IF task.due_date # NoDate
         THEN IF task.due_date < today THEN Red(v)
              ELSE IF task.due_date - today < DueSoonDays * SecondsPerDay THEN "orange"
              ELSE "blue"
    ELSE "white"

\* get_task_color testing the due date before the completion flag.
get_task_color_date_first(task, today, v) ==
    IF task.due_date # NoDate /\ task.due_date < today THEN Red(v)
    ELSE IF task.completed THEN "green"
    ELSE IF task.due_date # NoDate
         THEN IF task.due_date - today <= DueSoonDays * SecondsPerDay THEN "orange"
              ELSE "blue"
    ELSE "white"

get_task_color(task, today, v) ==
    IF task.completed THEN "green"
    ELSE IF task.due_date # NoDate
         THEN IF task.due_date < today THEN Red(v)
              ELSE IF task.due_date - today <= DueSoonDays * SecondsPerDay THEN "orange"
              ELSE "blue"
    ELSE "white"

\* color_order.get(color, 5)
color_order(color, v) ==
    CASE color = Red(v) -> 0
      [] color = "orange" -> 1
      [] color = "blue" -> 2
      [] color = "white" -> 3
      [] color = "green" -> 4
      [] OTHER -> 5

\* The key sort_tasks computes for ts[i], its clock read being reads[i].
sort_key(t, today, v) == <<color_order(get_task_color(t, today, v), v), 0 - t.priority>>

KeyLess(a, b) == a[1] < b[1] \/ (a[1] = b[1] /\ a[2] < b[2])

\* sorted() is stable: each element goes behind the elements whose key is
\* not greater than its own.
RECURSIVE InsertByKey(_, _, _)
InsertByKey(out, i, keys) ==
    IF out = <<>> THEN <<i>>
    ELSE IF KeyLess(keys[i], keys[Head(out)]) THEN <<i>> \o out
    ELSE <<Head(out)>> \o InsertByKey(Tail(out), i, keys)

RECURSIVE SortIndices(_, _)
SortIndices(n, keys) ==
    IF n = 0 THEN <<>> ELSE InsertByKey(SortIndices(n - 1, keys), n, keys)

\* The permutation sorted() applies: output position -> input position.
sorted_order(ts, reads, v) ==
    SortIndices(Len(ts), [i \in 1..Len(ts) |-> sort_key(ts[i], reads[i], v)])

sort_tasks(ts, reads, v) ==
    LET order == sorted_order(ts, reads, v) IN [j \in 1..Len(ts) |-> ts[order[j]]]

\* The clock reads of n successive datetime.now() calls that begin at t:
\* the clock never runs backwards and advances at most `ticks` times.
RECURSIVE ClockReads(_, _, _)
ClockReads(t, n, ticks) ==
    IF n = 0 THEN {<<>>}
    ELSE UNION {{<<r>> \o s : s \in ClockReads(r, n - 1, IF r = t THEN ticks ELSE ticks - 1)} :
                r \in {t} \cup (IF ticks > 0 THEN {x \in Instants : x > t} ELSE {})}

LastRead(t, reads) == IF reads = <<>> THEN t ELSE reads[Len(reads)]

\* active_tasks without its condition on task.deleted.
active_tasks_unfiltered(ts) == LET Every(t) == TRUE IN SelectSeq(ts, Every)

active_tasks(ts) == LET NotDeleted(t) == ~t.deleted IN SelectSeq(ts, NotDeleted)

NoPass == [input |-> <<>>, reads |-> <<>>, kcolors |-> <<>>, order |-> <<>>,
           shown |-> <<>>, creads |-> <<>>, colors |-> <<>>]

(***************************************************************************)
(* What the user types, and the files the program may find at startup.     *)
(***************************************************************************)
GuiDescriptions == {" a ", " "}
EditDescriptions == {" b ", " "}
ConsoleDescriptions == {" a ", " "}
DateTexts == {"", "garbage", ToString(MaxClockDay)}
PriorityNames == {"High", "typed"}
PriorityTexts == {"", "1", "7", "x"}
InfoTexts == {"", " x "}
Answers == {"y", "n"}

\* str.lower() on the texts the model types in.
lower(s) == CASE s = "A" -> "a" [] OTHER -> s

\* reverse_priority.get(priority_text, 2)
reverse_priority(priority_text) ==
    CASE priority_text = "Low" -> 1
      [] priority_text = "Normal" -> 2
      [] priority_text = "High" -> 3
      [] OTHER -> DefaultPriority

RecGood ==
    [description |-> "a", completed |-> FALSE, due_date |-> ToString(MaxClockDay),
     priority |-> 3, additional_info |-> None, created_date |-> ToString(0),
     deleted |-> FALSE]
\* a record of an older file: no "deleted" key
RecOld ==
    [description |-> "a", completed |-> TRUE, due_date |-> None, priority |-> 1,
     additional_info |-> "x", created_date |-> ToString(0)]
RecDeleted == [RecGood EXCEPT !.deleted = TRUE]
RecNoPriority ==
    [description |-> "a", completed |-> FALSE, due_date |-> None,
     additional_info |-> None, created_date |-> ToString(0), deleted |-> FALSE]
RecBadDate == [RecGood EXCEPT !.due_date = "garbage"]
RecBadPriority == [RecGood EXCEPT !.priority = 7]
RecNoCreated ==
    [description |-> "a", completed |-> FALSE, due_date |-> "", priority |-> 2,
     additional_info |-> None]
RecBlankInfo == [RecGood EXCEPT !.additional_info = " "]

InitialFiles ==
    {NoFile, FileOf(<<>>), FileOf(<<Junk>>), FileOf(<<Scalar>>)}
    \cup {FileOf(json_dump(d)) :
            d \in {<<>>, <<RecGood>>, <<RecOld, RecGood>>, <<RecDeleted>>,
                   <<RecNoPriority>>, <<RecGood, RecBadDate>>, <<RecBadPriority>>,
                   <<RecNoCreated>>, <<RecBlankInfo>>}}

NoExport == [exists |-> FALSE, lines |-> <<>>]

Call(op, arg, error) == [op |-> op, arg |-> arg, error |-> error]
NoCall == Call("", None, "")

\* What a handler leaves in `last`: the condition it reported, if any.
Report(op, error) == IF error = "" THEN NoCall ELSE Call(op, None, error)

\* id(): an identity no live task object has; a task that an open window
\* still holds is alive.
NewId(ts) ==
    CHOOSE i \in 1..(Len(ts) + Len(windows) + 1) :
        /\ \A j \in 1..Len(ts) : ts[j].id # i
        /\ \A w \in 1..Len(windows) : windows[w].task # i

RemoveAt(ts, i) == SubSeq(ts, 1, i - 1) \o SubSeq(ts, i + 1, Len(ts))

\* `task in list`: tasks compare by identity (Task defines no __eq__).
InCollection(ts, id) == \E i \in 1..Len(ts) : ts[i].id = id

\* list.index(task)
index(ts, task) == CHOOSE i \in 1..Len(ts) : ts[i].id = task.id

task_exists(ts, description) ==
    \E i \in 1..Len(ts) : lower(ts[i].description) = lower(description)

(***************************************************************************)
(* Startup: TaskManager.__init__ (GUI) and the first line of main          *)
(* (console).  An exception that escapes load_tasks ends the process.      *)
(***************************************************************************)
Startup ==
    /\ pc = "start"
    /\ LET r == load_tasks(file, now) IN
         /\ tasks' = r.tasks
         /\ pc' = IF r.raised THEN "crashed" ELSE "menu"
         /\ last' = Report("load_tasks", IF r.raised THEN "raised" ELSE "")
    /\ UNCHANGED <<variant, file, now, pass, windows, export>>

Tick ==
    /\ pc = "menu"
    /\ \E t \in Instants : t > now /\ now' = t
    /\ UNCHANGED <<variant, pc, tasks, file, pass, windows, export, last>>

\* A new run of the program after the previous one ended.
Restart ==
    /\ pc \in {"exited", "killed", "crashed"}
    /\ pc' = "start"
    /\ tasks' = <<>>
    /\ last' = NoCall
    /\ UNCHANGED <<variant, file, now, pass, windows, export>>

(***************************************************************************)
(* task_gui.py: the handlers of the GUI.  The list widgets display_tasks   *)
(* rebuilds at the end of a handler are the state of display_tasks below.  *)
(* A detail or edit window is a Toplevel that does not grab the input, so  *)
(* the list stays live and several windows can be open, also for one task. *)
(* A process that ends takes its windows with it.                          *)
(***************************************************************************)
DetailWindow(id) == [kind |-> "detail", task |-> id]
EditWindow(id) == [kind |-> "edit", task |-> id]

WindowsAfter(ws) == IF pc' = "menu" THEN ws ELSE <<>>

submit_task(description_entry, due_date_entry, priority_text, additional_info_entry) ==
    /\ variant = "gui" /\ pc = "menu" /\ Len(tasks) < MaxTasks
    /\ LET description == strip(description_entry)
           due_date_str == strip(due_date_entry)
           additional_info == strip(additional_info_entry)
       IN  IF description = ""
           THEN /\ last' = Report("submit_task", "Description cannot be empty!")
                /\ UNCHANGED <<tasks, file, pc>>
           ELSE IF due_date_str # "" /\ ~CanParse(due_date_str)
           THEN /\ last' = Report("submit_task", "Invalid due date format! Use DD/MM/YY")
                /\ UNCHANGED <<tasks, file, pc>>
           ELSE LET new_task ==
                      Task(NewId(tasks), description, FALSE,
                           IF due_date_str # "" THEN strptime(due_date_str) ELSE NoDate,
                           reverse_priority(priority_text),
                           IF additional_info # "" THEN additional_info ELSE None,
                           NoDate, FALSE, now)
                IN  /\ tasks' = Append(tasks, new_task)
                    /\ save_tasks(Append(tasks, new_task), "menu")
                    /\ last' = NoCall
    /\ windows' = WindowsAfter(windows)
    /\ UNCHANGED <<variant, now, pass, export>>

\* The Details button of a task of the list.
open_task_detail(i) ==
    /\ variant = "gui" /\ pc = "menu"
    /\ i \in 1..Len(tasks) /\ ~tasks[i].deleted
    /\ Len(windows) < MaxWindows
    /\ windows' = Append(windows, DetailWindow(tasks[i].id))
    /\ last' = NoCall
    /\ UNCHANGED <<variant, pc, tasks, file, now, pass, export>>

\* The Close button of a detail window.
close_detail(w) ==
    /\ variant = "gui" /\ pc = "menu"
    /\ w \in 1..Len(windows) /\ windows[w].kind = "detail"
    /\ windows' = RemoveAt(windows, w)
    /\ last' = NoCall
    /\ UNCHANGED <<variant, pc, tasks, file, now, pass, export>>

toggle_completion(w) ==
    /\ variant = "gui" /\ pc = "menu"
    /\ w \in 1..Len(windows) /\ windows[w].kind = "detail"
    /\ LET task == windows[w]
           after == IF InCollection(tasks, task.task)
                    THEN [tasks EXCEPT ![index(tasks, [id |-> task.task])] =
                            IF ~@.completed THEN mark_completed(@)
                            ELSE [@ EXCEPT !.completed = FALSE]]
                    ELSE tasks
       IN  tasks' = after /\ save_tasks(after, "menu")
    /\ windows' = WindowsAfter(RemoveAt(windows, w))
    /\ last' = NoCall
    /\ UNCHANGED <<variant, now, pass, export>>

\* The Edit Task button: the detail window gives way to an edit window.
open_edit(w) ==
    /\ variant = "gui" /\ pc = "menu"
    /\ w \in 1..Len(windows) /\ windows[w].kind = "detail"
    /\ windows' = Append(RemoveAt(windows, w), EditWindow(windows[w].task))
    /\ last' = NoCall
    /\ UNCHANGED <<variant, pc, tasks, file, now, pass, export>>

\* list.remove(task) raises ValueError when the task is not in the list; the
\* exception leaves delete_task before the save and the destroy.
delete_task(w, answer) ==
    /\ variant = "gui" /\ pc = "menu"
    /\ w \in 1..Len(windows) /\ windows[w].kind = "detail"
    /\ IF answer # "y"
       THEN /\ last' = NoCall
            /\ UNCHANGED <<tasks, file, pc, windows>>
       ELSE IF ~InCollection(tasks, windows[w].task)
       THEN /\ last' = Report("delete_task", "ValueError")
            /\ UNCHANGED <<tasks, file, pc, windows>>
       ELSE LET after == RemoveAt(tasks, index(tasks, [id |-> windows[w].task])) IN
            /\ tasks' = after
            /\ save_tasks(after, "menu")
            /\ windows' = WindowsAfter(RemoveAt(windows, w))
            /\ last' = NoCall
    /\ UNCHANGED <<variant, now, pass, export>>

\* submit_edit assigns field by field and returns at the first invalid entry.
submit_edit(w, description_entry, due_date_entry, priority_text, additional_info_entry) ==
    /\ variant = "gui" /\ pc = "menu"
    /\ w \in 1..Len(windows) /\ windows[w].kind = "edit"
    /\ LET new_description == strip(description_entry)
           due_date_str == strip(due_date_entry)
           additional_info == strip(additional_info_entry)
           held == InCollection(tasks, windows[w].task)
           i == IF held THEN index(tasks, [id |-> windows[w].task]) ELSE 0
           t1 == [tasks[i] EXCEPT !.description = new_description]
           t2 == [t1 EXCEPT !.due_date =
                     IF due_date_str # "" THEN strptime(due_date_str) ELSE NoDate]
           t3 == [t2 EXCEPT !.priority = reverse_priority(priority_text),
                            !.additional_info =
                                IF additional_info # "" THEN additional_info ELSE None]
           Assigned(t) == IF held THEN [tasks EXCEPT ![i] = t] ELSE tasks
       IN  IF new_description = ""
           THEN /\ last' = Report("submit_edit", "Description cannot be empty!")
                /\ UNCHANGED <<tasks, file, pc, windows>>
           ELSE IF due_date_str # "" /\ ~CanParse(due_date_str)
           THEN /\ tasks' = Assigned(t1)
                /\ last' = Report("submit_edit", "Invalid due date format! Use DD/MM/YY")
                /\ UNCHANGED <<file, pc, windows>>
           ELSE /\ tasks' = Assigned(t3)
                /\ save_tasks(Assigned(t3), "menu")
                /\ windows' = WindowsAfter(RemoveAt(windows, w))
                /\ last' = NoCall
    /\ UNCHANGED <<variant, now, pass, export>>

on_close ==
    /\ variant = "gui" /\ pc = "menu"
    /\ save_tasks(tasks, "exited")
    /\ windows' = <<>>
    /\ last' = NoCall
    /\ UNCHANGED <<variant, tasks, now, pass, export>>

(***************************************************************************)
(* ToDo-NO_GUI.py: the console program.  A prompt that rejects its input   *)
(* asks again, so only the input that ends each prompt loop is drawn.      *)
(***************************************************************************)
add_task(description_in, answer, due_date_in, priority_in, info_in) ==
    /\ variant = "console" /\ pc = "menu" /\ Len(tasks) < MaxTasks
    /\ LET description == strip(description_in)
           due_date_str == strip(due_date_in)
           priority_str == strip(priority_in)
           additional_info == strip(info_in)
       IN  /\ description # ""
           /\ due_date_str = "" \/ CanParse(due_date_str)
           /\ priority_str = "" \/ (IsInt(priority_str) /\ int(priority_str) \in PRIORITY_LEVELS)
           /\ IF task_exists(tasks, description) /\ answer # "y"
              THEN UNCHANGED tasks
              ELSE tasks' = Append(tasks,
                     Task(NewId(tasks), description, FALSE,
                          IF due_date_str # "" THEN strptime(due_date_str) ELSE NoDate,
                          IF priority_str = "" THEN DefaultPriority ELSE int(priority_str),
                          IF additional_info # "" THEN additional_info ELSE None,
                          NoDate, FALSE, now))
    /\ last' = NoCall
    /\ UNCHANGED <<variant, pc, file, now, pass, windows, export>>

\* manage_tasks_menu: choice, then the task number n looked up in the list
\* sorted anew at that moment, then the operation on tasks[task_index].
manage_operation(ts, task_index, choice, text) ==
    LET t == ts[task_index] IN
    CASE choice = "1" -> [ts EXCEPT ![task_index] = mark_completed(t)]
      [] choice = "2" -> [ts EXCEPT ![task_index] = reschedule(t, strip(text))]
      [] choice = "3" ->
           IF IsInt(strip(text))
           THEN [ts EXCEPT ![task_index] = update_priority(t, int(strip(text)))]
           ELSE ts
      [] choice = "4" -> [ts EXCEPT ![task_index] = update_description(t, strip(text))]
      [] choice = "5" ->
           [ts EXCEPT ![task_index] =
              update_additional_info(t, IF strip(text) # "" THEN strip(text) ELSE None)]
      [] choice = "6" -> IF strip(text) = "y" THEN RemoveAt(ts, task_index) ELSE ts
      [] choice = "7" -> [ts EXCEPT ![task_index] = [t EXCEPT !.completed = FALSE]]

\* What the chosen operation prints when it refuses its input.
manage_prints(t, choice, text) ==
    CASE choice = "1" -> mark_completed_prints(t)
      [] choice = "2" -> reschedule_prints(t, strip(text))
      [] choice = "3" ->
           IF IsInt(strip(text))
           THEN update_priority_prints(t, int(strip(text)))
           ELSE "Please enter a valid number!"
      [] choice = "4" -> update_description_prints(t, strip(text))
      [] OTHER -> ""

manage_tasks_menu(choice, n, reads, text) ==
    /\ variant = "console" /\ pc = "menu" /\ tasks # <<>>
    /\ LET sorted_tasks == sort_tasks(active_tasks(tasks), reads, "console") IN
         /\ n \in 1..Len(sorted_tasks)
         /\ LET task_index == index(tasks, sorted_tasks[n]) IN
              /\ tasks' = manage_operation(tasks, task_index, choice, text)
              /\ last' = Report("manage_tasks_menu",
                                manage_prints(tasks[task_index], choice, text))
    /\ now' = LastRead(now, reads)
    /\ UNCHANGED <<variant, pc, file, pass, windows, export>>

\* main, choice 3: "Save & Exit".
save_and_exit ==
    /\ variant = "console" /\ pc = "menu"
    /\ save_tasks(tasks, "exited")
    /\ last' = NoCall
    /\ UNCHANGED <<variant, tasks, now, pass, windows, export>>

\* What the console asks for after each choice of manage_tasks_menu.
ManageTexts(choice) ==
    CASE choice = "2" -> DateTexts
      [] choice = "3" -> PriorityTexts
      [] choice = "4" -> ConsoleDescriptions
      [] choice = "5" -> InfoTexts
      [] choice = "6" -> Answers
      [] OTHER -> {""}

(***************************************************************************)
(* The task store and its two front ends.                                  *)
(***************************************************************************)
Init ==
    /\ variant \in {"gui", "console"}
    /\ pc = "start"
    /\ tasks = <<>>
    /\ file \in InitialFiles
    /\ now = FirstInstant
    /\ pass = NoPass
    /\ windows = <<>>
    /\ export = NoExport
    /\ last = NoCall

Next ==
    \/ Startup
    \/ Tick
    \/ Restart
    \/ \E d \in GuiDescriptions, dt \in DateTexts, p \in PriorityNames, a \in InfoTexts :
         submit_task(d, dt, p, a)
    \/ \E i \in 1..Len(tasks) : open_task_detail(i)
    \/ \E w \in 1..Len(windows) : close_detail(w)
    \/ \E w \in 1..Len(windows) : toggle_completion(w)
    \/ \E w \in 1..Len(windows) : open_edit(w)
    \/ \E w \in 1..Len(windows), answer \in Answers : delete_task(w, answer)
    \/ \E w \in 1..Len(windows) :
         \E d \in EditDescriptions, dt \in DateTexts, p \in PriorityNames, a \in InfoTexts :
              submit_edit(w, d, dt, p, a)
    \/ on_close
    \/ \E d \in ConsoleDescriptions, answer \in Answers, dt \in DateTexts,
          p \in PriorityTexts, a \in InfoTexts :
         add_task(d, answer, dt, p, a)
    \/ \E choice \in {"1", "2", "3", "4", "5", "6", "7"}, n \in 1..Len(tasks) :
         \E reads \in ClockReads(now, Len(active_tasks(tasks)), MaxTicksInPass),
            text \in ManageTexts(choice) :
              manage_tasks_menu(choice, n, reads, text)
    \/ save_and_exit

Spec == Init /\ [][Next]_vars

(***************************************************************************)
(* The classification and ordering pass: display_tasks of task_gui.py      *)
(* (also the handler of the Refresh button) and of ToDo-NO_GUI.py.         *)
(* sort_tasks reads the clock once for each task's key, the display loop   *)
(* once more for each task's colour; `allreads` are those reads in order.  *)
(***************************************************************************)
tasks_to_display(ts, show_completed, v) ==
    LET Shown(t) == ~t.deleted /\ (v = "console" \/ show_completed \/ ~t.completed)
    IN  SelectSeq(ts, Shown)

\* What one run of display_tasks puts on the screen.
displayed(ts, show_completed, allreads, v) ==
    LET input == tasks_to_display(ts, show_completed, v)
        n == Len(input)
        reads == SubSeq(allreads, 1, n)
        creads == SubSeq(allreads, n + 1, 2 * n)
        shown == sort_tasks(input, reads, v)
    IN  [input |-> input,
         reads |-> reads,
         kcolors |-> [i \in 1..n |-> get_task_color(input[i], reads[i], v)],
         order |-> sorted_order(input, reads, v),
         shown |-> shown,
         creads |-> creads,
         colors |-> [j \in 1..n |-> get_task_color(shown[j], creads[j], v)]]

display_tasks(show_completed, allreads) ==
    /\ pc = "menu"
    /\ variant = "console" => tasks # <<>>
    /\ Len(allreads) = 2 * Len(tasks_to_display(tasks, show_completed, variant))
    /\ pass' = displayed(tasks, show_completed, allreads, variant)
    /\ now' = LastRead(now, allreads)
    /\ UNCHANGED <<variant, pc, tasks, file, windows, export, last>>

SortDueDates ==
    {NoDate} \cup {d * SecondsPerDay :
                     d \in {MaxClockDay} \cup {c + DueSoonDays : c \in 1..(MaxClockDay + 1)}}

SortTask(i, completed, due_date, priority) ==
    Task(i, "a", completed, due_date, priority, None, 0, FALSE, 0)

\* An open task with every due date; a completed one with none and with the
\* due date that the clock of the pass passes.
SortShapes ==
    ({FALSE} \X SortDueDates) \cup ({TRUE} \X {NoDate, MaxClockDay * SecondsPerDay})

SortInputs ==
    UNION {[1..n -> SortShapes \X PRIORITY_LEVELS] : n \in 0..MaxPassLen}

InitSort ==
    /\ variant \in {"gui", "console"}
    /\ pc = "menu"
    /\ \E f \in SortInputs :
         tasks = [i \in 1..Len(f) |-> SortTask(i, f[i][1][1], f[i][1][2], f[i][2])]
    /\ file = NoFile
    /\ now = FirstInstant
    /\ pass = NoPass
    /\ windows = <<>>
    /\ export = NoExport
    /\ last = NoCall

NextSort ==
    \/ Tick
    \/ \E show_completed \in BOOLEAN :
         \E allreads \in ClockReads(now,
                2 * Len(tasks_to_display(tasks, show_completed, variant)), MaxTicksInPass) :
           display_tasks(show_completed, allreads)

SpecSort == InitSort /\ [][NextSort]_vars

(***************************************************************************)
(* ToDo-NO_GUI.py: one turn of the loop of manage_tasks_menu with what it  *)
(* shows: display_tasks puts the sorted list on the screen, the user reads *)
(* it and types a choice and a task number, and the number is looked up in *)
(* a list sorted anew.  `allreads` are the clock reads of the display,     *)
(* `reads` those of the second sort; any time may pass in between.         *)
(***************************************************************************)
manage_tasks_menu_turn(choice, n, allreads, reads, text) ==
    /\ variant = "console" /\ pc = "menu" /\ tasks # <<>>
    /\ Len(allreads) = 2 * Len(active_tasks(tasks))
    /\ pass' = displayed(tasks, TRUE, allreads, "console")
    /\ LET sorted_tasks == sort_tasks(active_tasks(tasks), reads, "console") IN
         /\ n \in 1..Len(sorted_tasks)
         /\ LET task_index == index(tasks, sorted_tasks[n]) IN
              /\ tasks' = manage_operation(tasks, task_index, choice, text)
              /\ last' = Call("manage_tasks_menu", ToString(n),
                              manage_prints(tasks[task_index], choice, text))
    /\ now' = LastRead(LastRead(now, allreads), reads)
    /\ UNCHANGED <<variant, pc, file, windows, export>>

\* An open task without a due date, one due on the day of the clock and one
\* due later than the window; a completed one.
MenuShapes ==
    ({FALSE} \X {NoDate, MaxClockDay * SecondsPerDay,
                 (MaxClockDay + DueSoonDays + 1) * SecondsPerDay})
      \cup {<<TRUE, NoDate>>}

MenuInputs ==
    UNION {[1..n -> MenuShapes \X {1, DefaultPriority}] : n \in 1..MaxMenuLen}

\* What the user types after the task number, for each choice.
MenuTexts(choice) ==
    CASE choice = "2" -> {"garbage", ToString(MaxClockDay)}
      [] choice = "3" -> {"1", "7"}
      [] choice = "4" -> {" b "}
      [] choice = "5" -> {""}
      [] choice = "6" -> Answers
      [] OTHER -> {""}

InitMenu ==
    /\ variant = "console"
    /\ pc = "menu"
    /\ \E f \in MenuInputs :
         tasks = [i \in 1..Len(f) |-> SortTask(i, f[i][1][1], f[i][1][2], f[i][2])]
    /\ file = NoFile
    /\ now = FirstInstant
    /\ pass = NoPass
    /\ windows = <<>>
    /\ export = NoExport
    /\ last = NoCall

NextMenu ==
    \/ Tick
    \/ \E choice \in {"1", "2", "3", "4", "5", "6", "7"}, n \in 1..Len(tasks) :
         \E allreads \in ClockReads(now, 2 * Len(active_tasks(tasks)), MaxTicksInPass),
            text \in MenuTexts(choice) :
              \E reads \in ClockReads(LastRead(now, allreads), Len(active_tasks(tasks)),
                                      MaxTicksInPass) :
                 manage_tasks_menu_turn(choice, n, allreads, reads, text)

SpecMenu == InitMenu /\ [][NextMenu]_vars

(***************************************************************************)
(* The methods of Task called on a task with arguments of their declared   *)
(* types, as manage_tasks_menu and any other caller may call them.         *)
(***************************************************************************)
PriorityArgs == {0 - 1, 0, 1, 2, 3, 4}
DateArgs == {"", "garbage", ToString(MaxClockDay), ToString(MaxClockDay + DueSoonDays)}
DescriptionArgs == {"", " ", "b", " b "}
InfoArgs == {None, "", " ", "x", " x "}

call_mark_completed ==
    /\ pc = "menu"
    /\ tasks' = [tasks EXCEPT ![1] = mark_completed(@)]
    /\ last' = Call("mark_completed", None, mark_completed_prints(tasks[1]))
    /\ UNCHANGED <<variant, pc, file, now, pass, windows, export>>

call_reschedule(new_due_date_str) ==
    /\ pc = "menu"
    /\ tasks' = [tasks EXCEPT ![1] = reschedule(@, new_due_date_str)]
    /\ last' = Call("reschedule", new_due_date_str,
                    reschedule_prints(tasks[1], new_due_date_str))
    /\ UNCHANGED <<variant, pc, file, now, pass, windows, export>>

call_update_priority(new_priority) ==
    /\ pc = "menu"
    /\ tasks' = [tasks EXCEPT ![1] = update_priority(@, new_priority)]
    /\ last' = Call("update_priority", ToString(new_priority),
                    update_priority_prints(tasks[1], new_priority))
    /\ UNCHANGED <<variant, pc, file, now, pass, windows, export>>

call_update_description(new_description) ==
    /\ pc = "menu"
    /\ tasks' = [tasks EXCEPT ![1] = update_description(@, new_description)]
    /\ last' = Call("update_description", new_description,
                    update_description_prints(tasks[1], new_description))
    /\ UNCHANGED <<variant, pc, file, now, pass, windows, export>>

call_update_additional_info(new_info) ==
    /\ pc = "menu"
    /\ tasks' = [tasks EXCEPT ![1] = update_additional_info(@, new_info)]
    /\ last' = Call("update_additional_info", new_info, "")
    /\ UNCHANGED <<variant, pc, file, now, pass, windows, export>>

InitTask ==
    /\ variant \in {"gui", "console"}
    /\ pc = "menu"
    /\ \E completed \in BOOLEAN, due_date \in {NoDate, MaxClockDay * SecondsPerDay},
          priority \in PRIORITY_LEVELS, additional_info \in {None, "x"} :
         tasks = <<Task(1, "a", completed, due_date, priority, additional_info, 0, FALSE, 0)>>
    /\ file = NoFile
    /\ now = FirstInstant
    /\ pass = NoPass
    /\ windows = <<>>
    /\ export = NoExport
    /\ last = NoCall

NextTask ==
    \/ call_mark_completed
    \/ \E new_due_date_str \in DateArgs : call_reschedule(new_due_date_str)
    \/ \E new_priority \in PriorityArgs : call_update_priority(new_priority)
    \/ \E new_description \in DescriptionArgs : call_update_description(new_description)
    \/ \E new_info \in InfoArgs : call_update_additional_info(new_info)

SpecTask == InitTask /\ [][NextTask]_vars

(***************************************************************************)
(* The export: export_tasks of task_gui.py and choice 1 of                 *)
(* manage_and_view_tasks, both through export_tasks_to_txt.                *)
(* It reads the collection and writes tasks_export.txt only, so it is      *)
(* studied on given collections, apart from the store.                     *)
(***************************************************************************)
\* PRIORITY_LEVELS.get(priority, "Unknown")
PriorityName(priority) ==
    CASE priority = 1 -> "Low"
      [] priority = 2 -> "Normal"
      [] priority = 3 -> "High"
      [] OTHER -> "Unknown"

\* The line of one task: str(task) and the additional info, field by field.
render(t) ==
    [description |-> t.description,
     status |-> IF t.completed THEN "Completed" ELSE "Incomplete",
     due_date |-> IF t.due_date # NoDate THEN strftime(t.due_date) ELSE "No due date",
     priority |-> PriorityName(t.priority),
     created |-> strftime(t.created_date),
     info |-> IF Truthy(t.additional_info) THEN t.additional_info ELSE "No additional info"]

\* export_tasks_to_txt writing a line for the completed tasks too.
export_lines_with_completed(ts) ==
    LET Exported(t) == ~t.deleted
        chosen == SelectSeq(ts, Exported)
    IN  [j \in 1..Len(chosen) |-> render(chosen[j])]

export_lines(ts) ==
    LET Exported(t) == ~t.deleted /\ ~t.completed
        chosen == SelectSeq(ts, Exported)
    IN  [j \in 1..Len(chosen) |-> render(chosen[j])]

\* The console offers the export only while the collection is not empty.
export_tasks_to_txt ==
    /\ pc = "menu"
    /\ variant = "console" => tasks # <<>>
    /\ export' = [exists |-> TRUE, lines |-> export_lines(tasks)]
    /\ last' = NoCall
    /\ UNCHANGED <<variant, pc, tasks, file, now, pass, windows>>

ExportTask(i, description, completed, deleted, additional_info) ==
    Task(i, description, completed, NoDate, DefaultPriority, additional_info, 0, deleted, 0)

ExportInputs ==
    UNION {[1..n -> {"a", "b"} \X BOOLEAN \X BOOLEAN \X {None, "x"}] : n \in 0..MaxExportLen}

InitExport ==
    /\ variant \in {"gui", "console"}
    /\ pc = "menu"
    /\ \E f \in ExportInputs :
         tasks = [i \in 1..Len(f) |-> ExportTask(i, f[i][1], f[i][2], f[i][3], f[i][4])]
    /\ file = NoFile
    /\ now = FirstInstant
    /\ pass = NoPass
    /\ windows = <<>>
    /\ export = NoExport
    /\ last = NoCall

NextExport ==
    \/ Tick
    \/ export_tasks_to_txt

SpecExport == InitExport /\ [][NextExport]_vars

(***************************************************************************)
(* One run of either program started on a file that holds records marked   *)
(* deleted: every handler of both front ends, with the display pass and    *)
(* the export, while the clock does not reach the next instant.            *)
(***************************************************************************)
SoftFiles ==
    {FileOf(json_dump(d)) : d \in {<<>>, <<RecDeleted, RecOld>>, <<RecGood, RecDeleted>>}}

InitSoft ==
    /\ variant \in {"gui", "console"}
    /\ pc = "start"
    /\ tasks = <<>>
    /\ file \in SoftFiles
    /\ now = FirstInstant
    /\ pass = NoPass
    /\ windows = <<>>
    /\ export = NoExport
    /\ last = NoCall

NextSoft ==
    \/ Startup
    \/ submit_task(" a ", "", "High", "")
    \/ \E i \in 1..Len(tasks) : open_task_detail(i)
    \/ \E w \in 1..Len(windows) : close_detail(w)
    \/ \E w \in 1..Len(windows) : toggle_completion(w)
    \/ \E w \in 1..Len(windows) : open_edit(w)
    \/ \E w \in 1..Len(windows), answer \in Answers : delete_task(w, answer)
    \/ \E w \in 1..Len(windows), d \in EditDescriptions, dt \in {"", "garbage"} :
         submit_edit(w, d, dt, "High", "")
    \/ on_close
    \/ add_task(" a ", "y", "", "", "")
    \/ \E choice \in {"1", "2", "3", "4", "5", "6", "7"}, n \in 1..Len(tasks) :
         \E reads \in ClockReads(now, Len(active_tasks(tasks)), 0),
            text \in MenuTexts(choice) :
              manage_tasks_menu(choice, n, reads, text)
    \/ save_and_exit
    \/ \E show_completed \in BOOLEAN :
         \E allreads \in ClockReads(now, 2 * Len(tasks_to_display(tasks, show_completed, variant)),
                                    0) :
            display_tasks(show_completed, allreads)
    \/ export_tasks_to_txt

SpecSoft == InitSoft /\ [][NextSoft]_vars

(***************************************************************************)
(* Properties of the task store (checked under Spec).                      *)
(***************************************************************************)
Fields(t) ==
    [description |-> t.description, completed |-> t.completed, due_date |-> t.due_date,
     priority |-> t.priority, additional_info |-> t.additional_info,
     created_date |-> t.created_date, deleted |-> t.deleted]

Document(ts) == FileOf(json_dump(tasks_data(ts)))

\* C1: every task of the collection has a priority of 1, 2 or 3, in every
\* reachable state.
C1_PriorityAlwaysValid ==
    \A i \in 1..Len(tasks) : tasks[i].priority \in PRIORITY_LEVELS

\* C2: saving the collection and loading what was saved yields as many
\* tasks, in the same order, each equal to the saved one in every field.
C2_SaveLoadRoundTrip ==
    pc = "menu" =>
        LET r == load_tasks(Document(tasks), now) IN
          /\ ~r.raised
          /\ Len(r.tasks) = Len(tasks)
          /\ \A i \in 1..Len(tasks) : Fields(r.tasks[i]) = Fields(tasks[i])

\* The collection a file holds, when it decodes to one.
Stored(f) ==
    IF f.exists /\ IsListText(f.text)
       /\ \A i \in 1..Len(json_load(f.text)) : ~from_dict_raises(json_load(f.text)[i])
    THEN [valid |-> TRUE, items |-> json_load(f.text)]
    ELSE [valid |-> FALSE, items |-> <<>>]

\* C3: a save that is interrupted while it rewrites a valid file leaves a
\* file that decodes to the collection stored before the save began or to
\* the collection being saved.
C3_InterruptedSaveKeepsFile ==
    [][(pc' = "killed" /\ Stored(file).valid) =>
         /\ Stored(file').valid
         /\ \/ Stored(file') = Stored(file)
            \/ Stored(file').items = tasks_data(tasks')]_vars

\* C4: whatever the file holds, loading raises no error to its caller.
C4_LoadNeverRaises == pc # "crashed"

\* C5: loading when the file is missing, or exists with empty text, yields
\* the empty collection and no error.
C5_MissingOrEmptyLoadsEmpty ==
    [][(pc = "start" /\ pc' # "start" /\ (~file.exists \/ file.text = <<>>)) =>
         (pc' = "menu" /\ tasks' = <<>>)]_vars

C5_Witness == pc = "menu" /\ file = FileOf(<<>>) /\ tasks = <<>>

\* C6: when an operation that changed the collection is over and control is
\* back at the menu, the file holds the encoding of the collection; and a
\* normal exit leaves the file holding it too.
C6_FileFollowsEveryChange ==
    [][/\ (pc = "menu" /\ pc' = "menu" /\ tasks' # tasks) => file' = Document(tasks')
       /\ (pc = "menu" /\ pc' = "exited") => file' = Document(tasks')]_vars

(***************************************************************************)
(* Properties of the classification and ordering pass (under SpecSort).    *)
(***************************************************************************)
\* The classification rule of the specification.
Classify(task, reference_time) ==
    IF task.completed THEN "Completed"
    ELSE IF task.due_date = NoDate THEN "NoDueDate"
    ELSE IF task.due_date < reference_time THEN "Overdue"
    ELSE IF task.due_date - reference_time <= 30 * 24 * 60 * 60 THEN "DueSoon"
    ELSE "DueLater"

ClassOfColor(color) ==
    CASE color \in {"red", "neon_red"} -> "Overdue"
      [] color = "orange" -> "DueSoon"
      [] color = "blue" -> "DueLater"
      [] color = "white" -> "NoDueDate"
      [] color = "green" -> "Completed"
      [] OTHER -> "Unknown"

Rank(class) ==
    CASE class = "Overdue" -> 0
      [] class = "DueSoon" -> 1
      [] class = "DueLater" -> 2
      [] class = "NoDueDate" -> 3
      [] class = "Completed" -> 4
      [] OTHER -> 5

\* Every instant is a midnight or lies strictly between two midnights, and
\* due dates are midnights: these instants stand for all of them.
ReferenceInstants == Instants \cup {t + 1 : t \in Instants}

PassLen == Len(pass.input)

\* C7: the classifications one pass used as sort keys and the colours it
\* showed all agree with one reference instant.
C7_SingleReferenceInstant ==
    \E T \in ReferenceInstants :
        /\ \A i \in 1..PassLen :
             pass.kcolors[i] = get_task_color(pass.input[i], T, variant)
        /\ \A j \in 1..PassLen :
             pass.colors[j] = get_task_color(pass.shown[j], T, variant)

\* C8: each colour the pass computed is the one the reference rule gives for
\* that task at the instant the clock was read for it.
C8_ClassificationRule ==
    /\ \A i \in 1..PassLen :
         ClassOfColor(pass.kcolors[i]) = Classify(pass.input[i], pass.reads[i])
    /\ \A j \in 1..PassLen :
         ClassOfColor(pass.colors[j]) = Classify(pass.shown[j], pass.creads[j])

\* A task due exactly 30 days after its read is DueSoon, one due 30 days and
\* one second after its read is DueLater.
C8_Witness ==
    \E i, j \in 1..PassLen :
        /\ ~pass.input[i].completed /\ ~pass.input[j].completed
        /\ pass.input[i].due_date - pass.reads[i] = 30 * SecondsPerDay
        /\ pass.kcolors[i] = "orange"
        /\ pass.input[j].due_date - pass.reads[j] = 30 * SecondsPerDay + 1
        /\ pass.kcolors[j] = "blue"

\* C9: a completed task classifies as Completed whatever its due date, and
\* the pass puts it after every task that is not completed.
C9_CompletionTakesPrecedence ==
    /\ \A i \in 1..PassLen :
         pass.input[i].completed => pass.kcolors[i] = "green"
    /\ \A j \in 1..PassLen :
         pass.shown[j].completed => pass.colors[j] = "green"
    /\ \A j, k \in 1..PassLen :
         (pass.shown[j].completed /\ ~pass.shown[k].completed) => k < j

\* A completed task whose due date is past, moved behind an open task that
\* followed it in the input.
C9_Witness ==
    \E j, k \in 1..PassLen :
        /\ k < j
        /\ pass.shown[j].completed
        /\ pass.shown[j].due_date # NoDate
        /\ pass.shown[j].due_date < pass.reads[pass.order[j]]
        /\ ~pass.shown[k].completed
        /\ pass.order[j] < pass.order[k]

\* C10: the output of sort_tasks is a permutation of its input, ordered by
\* the classification rank the tasks have at the reference time of the call,
\* then by priority descending, ties in input order.
C10_StableSortByRankAndPriority ==
    \E T \in ReferenceInstants :
        LET RankAt(i) == Rank(Classify(pass.input[i], T)) IN
        /\ Len(pass.shown) = PassLen
        /\ Len(pass.order) = PassLen
        /\ {pass.order[j] : j \in 1..PassLen} = 1..PassLen
        /\ \A j \in 1..PassLen : pass.shown[j] = pass.input[pass.order[j]]
        /\ \A j, k \in 1..PassLen :
             j < k =>
               LET a == pass.order[j]
                   b == pass.order[k]
               IN  \/ RankAt(a) < RankAt(b)
                   \/ /\ RankAt(a) = RankAt(b)
                      /\ pass.input[a].priority > pass.input[b].priority
                   \/ /\ RankAt(a) = RankAt(b)
                      /\ pass.input[a].priority = pass.input[b].priority
                      /\ a < b

(***************************************************************************)
(* Properties of the methods of Task (checked under SpecTask).             *)
(***************************************************************************)
InvalidPriority == "Invalid priority level! Choose 1 (Low), 2 (Normal), or 3 (High)."
EmptyDescription == "Description cannot be empty!"
InvalidDate == "Invalid date format! Please use DD/MM/YY."

\* C11: update_priority(p) sets the priority to p when p is 1, 2 or 3 and
\* reports nothing; for any other integer it leaves the whole task as it was
\* and reports the invalid priority.
C11_UpdatePriority ==
    [][\A p \in PriorityArgs :
         (last'.op = "update_priority" /\ last'.arg = ToString(p)) =>
            IF p \in {1, 2, 3}
            THEN tasks' = <<[tasks[1] EXCEPT !.priority = p]>> /\ last'.error = ""
            ELSE tasks' = tasks /\ last'.error = InvalidPriority]_vars

C11_Witness ==
    /\ last = Call("update_priority", "4", InvalidPriority)
    /\ tasks[1].priority = 3

\* C12: update_description(text) sets the description to text when text is
\* not empty after trimming; otherwise it leaves the task as it was and
\* reports the empty description.  A description that is not empty stays so.
C12_UpdateDescription ==
    /\ [](\A i \in 1..Len(tasks) : strip(tasks[i].description) # "")
    /\ [][\A text \in DescriptionArgs :
            (last'.op = "update_description" /\ last'.arg = text) =>
               IF text \notin {"", " "}
               THEN tasks' = <<[tasks[1] EXCEPT !.description = text]>> /\ last'.error = ""
               ELSE tasks' = tasks /\ last'.error = EmptyDescription]_vars

C12_Witness ==
    /\ last = Call("update_description", " ", EmptyDescription)
    /\ tasks[1].description = " b "

\* C14: reschedule(text) replaces the due date by the parsed date when text
\* is a date; otherwise (empty text too) it leaves the task as it was and
\* reports the invalid date format.
C14_Reschedule ==
    [][\A text \in DateArgs :
         (last'.op = "reschedule" /\ last'.arg = text) =>
            IF \E d \in ParseDays : ToString(d) = text
            THEN /\ \E d \in ParseDays :
                      /\ ToString(d) = text
                      /\ tasks' = <<[tasks[1] EXCEPT !.due_date = d * SecondsPerDay]>>
                 /\ last'.error = ""
            ELSE tasks' = tasks /\ last'.error = InvalidDate]_vars

C14_Witness ==
    /\ last = Call("reschedule", "", InvalidDate)
    /\ tasks[1].due_date = (MaxClockDay + DueSoonDays) * SecondsPerDay

(***************************************************************************)
(* Further properties of the task store (checked under Spec).              *)
(***************************************************************************)
\* C13: every task's additional_info is absent or a text that is not empty
\* and not only whitespace, in every reachable state.
C13_AdditionalInfoNormalized ==
    \A i \in 1..Len(tasks) :
        tasks[i].additional_info = None \/ strip(tasks[i].additional_info) # ""

\* The steps of a running program, from one event to the next.
Running == pc = "menu" /\ pc' \in {"menu", "exited", "killed"}

\* C15: a task of the collection that has a due date still has one after
\* any operation.
C15_DueDateNeverCleared ==
    [][Running =>
         \A i \in 1..Len(tasks), j \in 1..Len(tasks') :
            (tasks[i].id = tasks'[j].id /\ tasks[i].due_date # NoDate)
               => tasks'[j].due_date # NoDate]_vars

\* C16: a submit of the edit dialog that reports a validation failure leaves
\* every field of every task as it was.
C16_FailedEditChangesNothing ==
    [][(pc = "menu" /\ last'.op = "submit_edit" /\ last'.error # "") => tasks' = tasks]_vars

\* C17: no delete raises, also when the task of the window is no longer in
\* the collection.
C17_RemoveAbsentDoesNotRaise ==
    ~(last.op = "delete_task" /\ last.error = "ValueError")

\* A record whose description, completed and priority are present and well
\* formed.
WellFormed(data) ==
    /\ {"description", "completed", "priority"} \subseteq DOMAIN data
    /\ strip(data.description) # ""
    /\ data.completed \in BOOLEAN
    /\ data.priority \in {1, 2, 3}

\* C18: a task is built only from a record whose description, completed and
\* priority are present and well formed, and a record without the deleted
\* key gives a task that is not deleted.
C18_MalformedRecordIsNotBuilt ==
    [][(pc = "start" /\ pc' = "menu" /\ file.exists /\ IsListText(file.text)) =>
         \A i \in 1..Len(json_load(file.text)) :
            LET data == json_load(file.text)[i] IN
              /\ WellFormed(data)
              /\ "deleted" \notin DOMAIN data => ~tasks'[i].deleted]_vars

\* C20: no operation on a task of the collection changes its created_date.
C20_CreatedDateNeverChanges ==
    [][Running =>
         \A i \in 1..Len(tasks), j \in 1..Len(tasks') :
            tasks[i].id = tasks'[j].id => tasks'[j].created_date = tasks[i].created_date]_vars

\* A task created in this run, then completed and edited, and saved.
C20_Witness ==
    /\ pc = "menu"
    /\ \E i \in 1..Len(tasks) :
         /\ tasks[i].created_date \in Instants
         /\ tasks[i].completed
         /\ tasks[i].description = "b"
    /\ file = Document(tasks)

(***************************************************************************)
(* Properties of the export (checked under SpecExport).                    *)
(***************************************************************************)
Exportable(ts) == {i \in 1..Len(ts) : ~ts[i].deleted /\ ~ts[i].completed}

\* C19: the export holds one line for each task that is neither deleted nor
\* completed, in collection order, and nothing else; the export changes no
\* task.
C19_ExportListsOpenTasks ==
    /\ [](export.exists =>
            /\ Len(export.lines) = Cardinality(Exportable(tasks))
            /\ \A i \in Exportable(tasks) :
                 export.lines[Cardinality({k \in Exportable(tasks) : k < i}) + 1]
                    = render(tasks[i]))
    /\ [][tasks' = tasks]_vars

C19_Witness ==
    /\ export.exists
    /\ Len(tasks) = 3
    /\ ~tasks[1].completed /\ ~tasks[1].deleted /\ tasks[1].description = "b"
    /\ tasks[2].completed /\ ~tasks[2].deleted
    /\ ~tasks[3].completed /\ ~tasks[3].deleted /\ tasks[3].description = "a"
    /\ Len(export.lines) = 2
    /\ export.lines[1].description = "b"

(***************************************************************************)
(* Properties of the console management menu (checked under SpecMenu).     *)
(***************************************************************************)
\* The tasks of ts other than the one with identity id, in their order.
Others(ts, id) == LET Other(t) == t.id # id IN SelectSeq(ts, Other)

\* C22: the operation chosen for task number n touches only the task that
\* the list displayed before the prompt showed at position n: the other
\* tasks keep their fields and their order in the collection.
C22_OperationHitsTheTaskShown ==
    [][\A n \in 1..MaxMenuLen :
         (last'.op = "manage_tasks_menu" /\ last'.arg = ToString(n)) =>
            /\ n <= Len(pass'.shown)
            /\ Others(tasks', pass'.shown[n].id) = Others(tasks, pass'.shown[n].id)]_vars

(***************************************************************************)
(* Properties of the deleted flag (checked under SpecSoft).                *)
(***************************************************************************)
\* The tasks of ts that are marked deleted, in their order.
Deleted(ts) == LET Marked(t) == t.deleted IN SelectSeq(ts, Marked)

\* ts has a task with identity id that is marked deleted.
HoldsDeleted(ts, id) == \E i \in 1..Len(ts) : ts[i].id = id /\ ts[i].deleted

\* s is the beginning of t.
IsPrefix(s, t) == Len(s) <= Len(t) /\ SubSeq(t, 1, Len(s)) = s

\* C21: the deleted flag is a soft delete that the program never sets.  The
\* tasks marked deleted are those that load built from a record with deleted
\* true, and no operation adds, changes, moves or drops one; a task marked
\* deleted is in no displayed list, behind no detail or edit window and in no
\* export; every save writes the whole collection, and a save that runs to
\* its end leaves the record of every task marked deleted in the file.
C21_DeletedIsSoftAndNeverSet ==
    /\ [](\A j \in 1..Len(pass.shown) : ~pass.shown[j].deleted)
    /\ [](\A w \in 1..Len(windows) : ~HoldsDeleted(tasks, windows[w].task))
    /\ [][/\ (pc = "start" /\ pc' = "menu") =>
               \A i \in 1..Len(tasks') :
                  tasks'[i].deleted = Get(json_load(file.text)[i], "deleted", FALSE)
          /\ Running => Deleted(tasks') = Deleted(tasks)
          /\ (Running /\ export' # export) =>
               /\ Len(export'.lines) <= Len(tasks) - Len(Deleted(tasks))
               /\ \A k \in 1..Len(export'.lines) :
                    \E i \in 1..Len(tasks) :
                       ~tasks[i].deleted /\ export'.lines[k] = render(tasks[i])
          /\ (Running /\ file' # file) => IsPrefix(file'.text, Document(tasks').text)
          /\ (Running /\ pc' # "killed" /\ (file' # file \/ pc' = "exited")) =>
               /\ Stored(file').valid
               /\ \A i \in 1..Len(tasks') :
                    tasks'[i].deleted =>
                       /\ i <= Len(Stored(file').items)
                       /\ Stored(file').items[i] = to_dict(tasks'[i])]_vars

\* A task loaded as deleted beside one that was edited and saved in this
\* run: the list shows the edited task alone, the export was written, and the
\* file holds both records.
C21_Witness ==
    /\ pc = "menu"
    /\ Len(tasks) = 2
    /\ tasks[2].deleted
    /\ ~tasks[1].deleted /\ tasks[1].description = "b"
    /\ pass.shown = <<tasks[1]>>
    /\ export.exists /\ Len(export.lines) = 1
    /\ file = Document(tasks)

====
